---- MODULE Spec2Model ----
(***************************************************************************)
(* Model of the voltaire bundler's MempoolManager                          *)
(* (src/voltaire_bundler/bundler/mempool_manager.py): admission of user    *)
(* operations, per-sender queues, reputation checks and bundle selection,  *)
(* as coroutines that interleave at their await points; and of its         *)
(* GasManager (src/voltaire_bundler/bundler/gas_manager.py): the gas       *)
(* estimates, each a coroutine that advances at the node's responses.      *)
(***************************************************************************)
EXTENDS Integers, Sequences, FiniteSets, TLC

\* ------------------------------------------------------------------ bounds
MaxOps == 2          \* add_user_operation calls in a run
MaxBundles == 2      \* get_user_operations_to_bundle calls in a run
MaxInFlight == 2     \* coroutines suspended at an await at the same time
MaxGasCalls == 2     \* calls of GasManager methods in a run
MaxIter == 30        \* loop iterations of one call-gas search that are followed
MaxBodyLen == 31   \* most non-zero bytes in the fields of an operation that no step reads

\* Reputation configuration (thresholds on ops_seen - ops_included).
ThrottleThreshold == 1
BanThreshold == 3

\* The configured mempool capacity (no field of MempoolManager holds one).
MempoolCapacity == 1

\* Input domains: account addresses, factory / paymaster addresses, nonces, and
\* the values a code hash takes (PinnedHash names the hash of the code deployed
\* when the op was validated, the other value any later, different code).
None == 0
SenderAddrs == {1, 2}
EntityAddrs == {3}
Addrs == SenderAddrs \cup EntityAddrs
Nonces == {0, 1}
PinnedHash == 0
CodeHashes == {0, 1}

VARIABLES
    senders,        \* dict[str, Sender] in insertion order: Seq of [address, obj]
    heap,           \* the Sender objects ever built: obj id -> [address, user_operations]
    entity_no_of_ops_in_mempool,  \* dict[str, int]: a function on the keys present
    ops_seen,       \* ReputationManager: ops_seen per entity
    calls,          \* add_user_operation coroutines, one per call, by op id
    bundles,        \* get_user_operations_to_bundle coroutines, one per call
    extracted,      \* history: the ops popped from a queue, in the order popped
    recomputed,     \* history: per popped op, the pinned and the recomputed code hash
    clearedObjs,    \* history: the Sender objects a clear took out of the senders map
    chain_id,       \* GasManager.chain_id
    estimate_gas_with_override_enabled,   \* GasManager field of that name
    gas_call,       \* the GasManager coroutine running or last run: arguments, locals, outcome
    gas_history     \* history: GasManager calls started, and whether the node has
                    \* answered eth_estimateGas with MethodNotFound

mvars == <<senders, heap, entity_no_of_ops_in_mempool, ops_seen, calls, bundles,
           extracted, recomputed, clearedObjs>>

gvars == <<chain_id, estimate_gas_with_override_enabled, gas_call, gas_history>>

vars == <<senders, heap, entity_no_of_ops_in_mempool, ops_seen, calls, bundles,
          extracted, recomputed, clearedObjs,
          chain_id, estimate_gas_with_override_enabled, gas_call, gas_history>>

\* ----------------------------------------------------------- dict helpers
Put(f, k, v) == [x \in (DOMAIN f) \cup {k} |-> IF x = k THEN v ELSE f[x]]

HasSender(S, a) == \E i \in DOMAIN S : S[i].address = a

SenderObj(S, a) == S[CHOOSE i \in DOMAIN S : S[i].address = a].obj

DelSender(S, a) == SelectSeq(S, LAMBDA r : r.address # a)

SeqSet(q) == {q[i] : i \in DOMAIN q}

OpIds(q) == {q[i].id : i \in DOMAIN q}

\* ------------------------------------------------------- user operations
NoHash == 2

NoOp == [id |-> 0, sender |-> None, factory |-> None, paymaster |-> None,
         nonce |-> 0, code_hash |-> NoHash, obj |-> 0]

NewOp(i, s, f, p, n) ==
    [id |-> i, sender |-> s, factory |-> f, paymaster |-> p, nonce |-> n,
     code_hash |-> NoHash, obj |-> 0]

associated_addresses(op) == {op.sender, op.factory, op.paymaster} \ {None}

\* ------------------------------------------------------------ reputation
get_status(seen, a) ==
    IF seen[a] > BanThreshold THEN "BANNED"
    ELSE IF seen[a] > ThrottleThreshold THEN "THROTTLED"
    ELSE "OK"

update_seen_status(seen, a) == [seen EXCEPT ![a] = @ + 1]

\* Only the sender's counter is updated.
update_all_seen_status_sender_only(seen, op) == update_seen_status(seen, op.sender)

\* Lines 136-145.
update_all_seen_status(seen, op) ==
    LET s1 == update_seen_status(seen, op.sender)
        s2 == IF op.factory # None THEN update_seen_status(s1, op.factory) ELSE s1
    IN  IF op.paymaster # None THEN update_seen_status(s2, op.paymaster) ELSE s2

\* A BANNED entity is refused only when it has ops in the mempool.
verify_entity_reputation_lenient(ent, seen, entity_address, entity_no_of_ops) ==
    LET ent1 == IF entity_address \in DOMAIN ent THEN ent
                ELSE Put(ent, entity_address, 0)
        no_of_ops == ent1[entity_address]
        status == get_status(seen, entity_address)
    IN  [ent |-> ent1,
         res |-> IF status = "BANNED" /\ no_of_ops > 0 THEN "Reputation_banned"
                 ELSE IF status = "THROTTLED" /\ no_of_ops > 0
                      THEN "Reputation_throttled"
                 ELSE "ok"]

\* Lines 183-216.
\* Returns the entity-count dict after the call and the outcome: the argument
\* entity_no_of_ops is overwritten by the dict's value before it is read.
verify_entity_reputation(ent, seen, entity_address, entity_no_of_ops) ==
    LET ent1 == IF entity_address \in DOMAIN ent THEN ent
                ELSE Put(ent, entity_address, 0)
        no_of_ops == ent1[entity_address]
        status == get_status(seen, entity_address)
    IN  [ent |-> ent1,
         res |-> IF status = "BANNED" THEN "Reputation_banned"
                 ELSE IF status = "THROTTLED" /\ no_of_ops > 0
                      THEN "Reputation_throttled"
                 ELSE "ok"]

EntityCount(ent, a) == IF a \in DOMAIN ent THEN ent[a] ELSE 0

verify_entities_reputation(S, H, ent, seen, op) ==
    LET sender_no_of_ops ==
            IF HasSender(S, op.sender)
            THEN Len(H[SenderObj(S, op.sender)].user_operations) ELSE 0
        r1 == verify_entity_reputation(ent, seen, op.sender, sender_no_of_ops)
        r2 == IF r1.res = "ok" /\ op.factory # None
              THEN verify_entity_reputation(r1.ent, seen, op.factory,
                                            EntityCount(r1.ent, op.factory))
              ELSE r1
    IN  IF r2.res = "ok" /\ op.paymaster # None
        THEN verify_entity_reputation(r2.ent, seen, op.paymaster,
                                      EntityCount(r2.ent, op.paymaster))
        ELSE r2

update_entity_no_of_ops_in_mempool(ent, a) == Put(ent, a, EntityCount(ent, a) + 1)

\* --------------------------------------------------------------- Sender
\* Sender.add_user_operation: the op is appended to the queue when its nonce is
\* above the last queued one, and refused with InvalidFields otherwise. (The
\* flag is_sender_staked that validate_user_operation returns plays no part.)
sender_add_user_operation(queue, op) ==
    IF queue = <<>> \/ op.nonce > queue[Len(queue)].nonce
    THEN [user_operations |-> Append(queue, op), raised |-> FALSE]
    ELSE [user_operations |-> queue, raised |-> TRUE]

\* ------------------------------------------------------- observable state
\* The queue held under each key of the senders map, in the map's order.
SendersView(S, H) ==
    [i \in DOMAIN S |-> [address |-> S[i].address,
                         user_operations |-> H[S[i].obj].user_operations]]

View == [senders |-> SendersView(senders, heap),
         entity_no_of_ops_in_mempool |-> entity_no_of_ops_in_mempool,
         ops_seen |-> ops_seen]

NoView == [senders |-> <<>>, entity_no_of_ops_in_mempool |-> <<>>, ops_seen |-> <<>>]

\* Ops queued under the senders map.
QueuedOps == UNION {SeqSet(heap[senders[i].obj].user_operations) : i \in DOMAIN senders}

\* Number of queued ops that reference address a in the given role(s).
QueuedAsSender(a) == Cardinality({o \in QueuedOps : o.sender = a})

QueuedAsEntity(a) == Cardinality({o \in QueuedOps : o.factory = a \/ o.paymaster = a})

InFlightCalls == {i \in DOMAIN calls : calls[i].pc # "done"}

InFlightBundles == {b \in DOMAIN bundles : bundles[b].pc = "hash"}

Busy == InFlightCalls # {} \/ InFlightBundles # {}

\* ------------------------------------------------------------ GasManager
\* gas_manager.py line 39, and the tolerance of the search loop, line 284.
MAX_CALL_GAS_LIMIT == 30000000
MAX_VERIFICATION_GAS_LIMIT == 10000000
SearchTolerance == 5000

\* Values of GasManager.chain_id: a chain without L1 data cost, Optimism, Arbitrum One.
ChainIds == {1, 10, 42161}

\* What the node may answer.
\* HelperThresholds: the helper's eth_call succeeds exactly at call gas limits at or
\* above the threshold (a threshold above MAX_CALL_GAS_LIMIT: it reverts at every
\* limit that is tried first). GasUsedValues: the gasUsed it reports.
HelperThresholds == {1, 73421, 30000000, 30000001}
GasUsedValues == {0, 1, 70000, 16000000, 29999000}
EstimateGasValues == {0, 21000, 50000}
PreOpGasValues == {0, 45000, 200000}
L1Values == {0, 7}

\* Arguments of the calls.
CallDatas == {[zeros |-> 4, nonzeros |-> 32]}
PreVerificationGasValues == {0, 45000}
DummySignatureLen == 65
PvgCoefficients == {100, 110}
MaxFeesPerGas == {0, 3}
PriorityFeePerGas == 1
BaseFee == 1

\* math.ceil(a / b) for integers a >= 0, b > 0.
CeilDiv(a, b) == (a + b - 1) \div b

\* hex(n): a sign and the digits of the magnitude; int(h, 16) reads it back.
hex(n) == [neg |-> n < 0, mag |-> IF n < 0 THEN 0 - n ELSE n]

int_base16(h) == IF h.neg THEN 0 - h.mag ELSE h.mag

NoHex == [neg |-> FALSE, mag |-> 0]

\* The record of a GasManager coroutine, with the fields of the user operation it
\* is given: init_code_empty, has_paymaster, max_fee_per_gas,
\* max_priority_fee_per_gas, call_gas_limit, verification_gas_limit,
\* pre_verification_gas, signature (length and number of zero bytes) and body (the
\* bytes of the other fields, those of call_data among them). twin is the list of a second operation, for which
\* the pre-verification gas is computed side by side (twin_base, twin_int).
\* outer is the position of estimate_callgaslimit_and_preverificationgas_and_
\* verificationgas when it is the caller ("none" otherwise), order the limits it has
\* computed so far. zeros and nonzeros count the bytes of
\* call_data, or of the packed user operation; T, g0, iters and issued are history:
\* the helper's threshold, the gasUsed of its first answer, the loop iterations of
\* the search so far, the RPC methods the call has issued; so are enabled_at_start
\* (estimate_gas_with_override_enabled when the call started), error_code (the code
\* of the error answered to eth_estimateGas) and answer (the kind of the node's
\* answer to a simulation). detail is what a raised exception carries.
\* is_legacy_mode and multiplier (both percentage multipliers) are the instance's
\* configuration as the fee verification reads it; priority_fee_answer is the
\* node's answer to eth_maxPriorityFeePerGas. request_overrides is the
\* state-override parameter of the eth_call request sent.
IdleCall ==
    [method |-> "none", pc |-> "idle",
     init_code_empty |-> TRUE, override_empty |-> TRUE, zeros |-> 0, nonzeros |-> 0,
     coefficient |-> 100, constant |-> 0, max_fee_per_gas |-> 0,
     pre_verification_gas |-> 0, call_gas_limit |-> 0,
     base |-> 0, gas_used |-> 0, index |-> 0, min_gas |-> 0, max_gas |-> 0,
     left |-> 0, right |-> 0, mid |-> 0,
     T |-> 0, g0 |-> 0, iters |-> 0, issued |-> {},
     enabled_at_start |-> TRUE, error_code |-> 0, answer |-> "none",
     detail |-> "none",
     is_legacy_mode |-> FALSE, multiplier |-> 100, tolerance |-> 0,
     max_priority_fee_per_gas |-> 0, block_max_fee_per_gas |-> 0,
     block_max_priority_fee_per_gas |-> 0,
     block_max_fee_per_gas_with_tolerance |-> 0, priority_fee_answer |-> 0,
     has_paymaster |-> FALSE, target_is_zero |-> TRUE,
     verification_gas_limit |-> 0,
     signature |-> [len |-> 0, zeros |-> 0], body |-> [zeros |-> 0, nonzeros |-> 0],
     twin |-> [call_gas_limit |-> 0, verification_gas_limit |-> 0,
               pre_verification_gas |-> 0,
               signature |-> [len |-> 0, zeros |-> 0],
               body |-> [zeros |-> 0, nonzeros |-> 0]],
     twin_base |-> 0, twin_int |-> 0,
     call_data |-> [zeros |-> 0, nonzeros |-> 0],
     outer |-> "none", order |-> <<>>, preOpGas |-> 0,
     expected_preverification_gas |-> 0,
     call_gas_limit_hex |-> NoHex, preverification_gas_hex |-> NoHex,
     verification_gas_hex |-> NoHex,
     state_override_set_dict |-> <<>>, default_state_overrides |-> <<>>,
     request_overrides |-> <<>>,
     outcome |-> "pending", returned_hex |-> NoHex, returned_int |-> 0]

GasIdle == gas_call.pc \in {"idle", "done"}

BeginCall(method) ==
    /\ GasIdle
    /\ gas_history.n < MaxGasCalls
    /\ gas_history' = [gas_history EXCEPT !.n = @ + 1]

\* The test of lines 147-150 without its first conjunct.
uses_eth_estimate_any_init_code(init_code_empty, override_empty, enabled) ==
    enabled \/ override_empty

\* Lines 145-150: whether eth_estimateGas is tried.
uses_eth_estimate(init_code_empty, override_empty, enabled) ==
    LET is_state_override_empty_or_none == override_empty
    IN  init_code_empty /\ (enabled \/ is_state_override_empty_or_none)

\* Lines 144-152 and 170-171: the strategy is chosen and its first request awaited.
CallGasLimitEntry(c) ==
    LET c1 == [c EXCEPT !.enabled_at_start = estimate_gas_with_override_enabled]
    IN  IF uses_eth_estimate(c.init_code_empty, c.override_empty,
                             estimate_gas_with_override_enabled)
        THEN [c1 EXCEPT !.pc = "eth_estimateGas", !.issued = @ \cup {"eth_estimateGas"}]
        ELSE [c1 EXCEPT !.pc = "helper_max", !.issued = @ \cup {"eth_call"}]

\* Lines 114-126: the operation is given the largest call gas limit and the
\* simulation is awaited.
VerificationGasLimitEntry(c) ==
    [c EXCEPT !.pc = "simulate_handle_op",
              !.call_gas_limit = MAX_CALL_GAS_LIMIT,
              !.issued = @ \cup {"eth_call"}]

\* Lines 78-82 without the assignment of line 79.
after_preverification_gas_op_not_updated(c, preverification_gas) ==
    [c EXCEPT !.outer = "call",
              !.order = Append(@, "pre_verification_gas"),
              !.preverification_gas_hex = hex(preverification_gas),
              !.verification_gas_limit = MAX_VERIFICATION_GAS_LIMIT]

\* Lines 78-82 of estimate_callgaslimit_and_preverificationgas_and_verificationgas.
after_preverification_gas(c, preverification_gas) ==
    [c EXCEPT !.outer = "call",
              !.order = Append(@, "pre_verification_gas"),
              !.preverification_gas_hex = hex(preverification_gas),
              !.pre_verification_gas = preverification_gas,
              !.verification_gas_limit = MAX_VERIFICATION_GAS_LIMIT]

\* A coroutine returns. When its caller is the estimate of the three limits
\* (outer), that coroutine goes on in the same step: after the call gas limit with
\* lines 93-99, after the verification gas limit with lines 100-104.
ReturnHex(c, h) ==
    IF c.outer = "call"
    THEN VerificationGasLimitEntry(
             [c EXCEPT !.outer = "verification",
                       !.order = Append(@, "call_gas_limit"),
                       !.call_gas_limit_hex = h])
    ELSE IF c.outer = "verification"
    THEN [c EXCEPT !.pc = "done", !.outcome = "ok", !.outer = "returned",
                   !.order = Append(@, "verification_gas_limit"),
                   !.verification_gas_hex = h]
    ELSE [c EXCEPT !.pc = "done", !.outcome = "ok", !.returned_hex = h]

Raise(c, exception) == [c EXCEPT !.pc = "done", !.outcome = exception]

\* Lines 604-614 of verify_preverification_gas_and_verification_gas_limit: the
\* exception raised, or "ok".
verify_limits(c, expected_preverification_gas) ==
    IF c.pre_verification_gas < expected_preverification_gas
    THEN "ValidationException"
    ELSE IF c.verification_gas_limit > MAX_VERIFICATION_GAS_LIMIT
    THEN "ValidationException"
    ELSE "ok"

\* After the pre-verification gas the outer coroutine goes on with lines 78-92,
\* where estimate_call_gas_limit is given the operation's call_data; the
\* verification of the limits goes on with lines 604-614.
ReturnInt(c, n) ==
    IF c.outer = "pvg"
    THEN CallGasLimitEntry([after_preverification_gas(c, n) EXCEPT
                               !.zeros = c.call_data.zeros,
                               !.nonzeros = c.call_data.nonzeros])
    ELSE IF c.outer = "verify"
    THEN LET c1 == [c EXCEPT !.outer = "verified",
                             !.expected_preverification_gas = n]
         IN  IF verify_limits(c, n) = "ok"
             THEN [c1 EXCEPT !.pc = "done", !.outcome = "ok"]
             ELSE Raise(c1, verify_limits(c, n))
    ELSE [c EXCEPT !.pc = "done", !.outcome = "ok", !.returned_int = n]

\* ------------------------------------------------- pre-verification gas
\* Line 769: math.ceil((packed_length + 31) / 32), a true division.
length_in_words_floor(packed_length) == (packed_length + 31) \div 32

length_in_words(packed_length) == CeilDiv(packed_length + 31, 32)

\* Lines 742-782, on the packed operation's length and number of zero bytes
\* (preVerificationGas set to 21000 and a short signature replaced by the dummy one
\* before packing).
calc_base_preverification_gas(packed_length, zero_byte_count) ==
    LET fixed == 21000
        per_user_operation == 18300
        per_user_operation_word == 4
        zero_byte == 4
        non_zero_byte == 16
        bundle_size == 1
        non_zero_byte_count == packed_length - zero_byte_count
        call_data_cost == zero_byte_count * zero_byte
                              + non_zero_byte_count * non_zero_byte
    IN  call_data_cost + CeilDiv(fixed, bundle_size) + per_user_operation
            + per_user_operation_word * length_in_words(packed_length)

\* Lines 728-739.
adjusted_preverification_gas(base, l1_gas, coefficient, constant) ==
    CeilDiv((base + l1_gas) * coefficient, 100) + constant

\* The number of non-zero bytes of an unsigned integer.
RECURSIVE non_zero_bytes(_)
non_zero_bytes(v) ==
    IF v = 0 THEN 0
    ELSE (IF v % 256 # 0 THEN 1 ELSE 0) + non_zero_bytes(v \div 256)

\* UserOperation.to_list(): a new list of the operation's fields.
to_list(c) ==
    [call_gas_limit |-> c.call_gas_limit,
     verification_gas_limit |-> c.verification_gas_limit,
     pre_verification_gas |-> c.pre_verification_gas,
     signature |-> c.signature,
     body |-> c.body]

\* UserOperationHandler.pack_user_operation: the zero and non-zero bytes of the
\* encoding, one 32-byte word for each gas field.
pack_user_operation(user_operation_list) ==
    LET in_words == non_zero_bytes(user_operation_list.call_gas_limit)
                        + non_zero_bytes(user_operation_list.verification_gas_limit)
                        + non_zero_bytes(user_operation_list.pre_verification_gas)
        sig == user_operation_list.signature
    IN  [zeros |-> user_operation_list.body.zeros + (96 - in_words) + sig.zeros,
         nonzeros |-> user_operation_list.body.nonzeros + in_words
                          + (sig.len - sig.zeros)]

\* Lines 748-751: 65 bytes 0x01.
DummySignature == [len |-> DummySignatureLen, zeros |-> 0]

\* Lines 743-763 without the assignment of line 745.
packed_with_own_pre_verification_gas(user_operation_list) ==
    pack_user_operation(
        IF user_operation_list.signature.len < DummySignatureLen
        THEN [user_operation_list EXCEPT !.signature = DummySignature]
        ELSE user_operation_list)

\* Lines 743-763: the list is given preVerificationGas 21000 and, if its signature
\* is shorter than 65 bytes, the dummy signature; then it is packed.
packed_for_preverification_gas(user_operation_list) ==
    LET l6 == [user_operation_list EXCEPT !.pre_verification_gas = 21000]
    IN  pack_user_operation(
            IF l6.signature.len < DummySignatureLen
            THEN [l6 EXCEPT !.signature = DummySignature]
            ELSE l6)

\* Lines 742-782 on a list.
base_preverification_gas(user_operation_list) ==
    LET packed == packed_for_preverification_gas(user_operation_list)
    IN  calc_base_preverification_gas(packed.zeros + packed.nonzeros, packed.zeros)

\* The arguments of a pre-verification call are the ones the idle record holds:
\* the operation, the coefficient and the constant.
\* The static method called on its own.
CalcBasePreverificationGas ==
    /\ gas_call.pc = "idle"
    /\ LET packed == packed_for_preverification_gas(to_list(gas_call))
       IN  gas_call' = ReturnInt([gas_call EXCEPT
                                     !.method = "calc_base_preverification_gas",
                                     !.zeros = packed.zeros,
                                     !.nonzeros = packed.nonzeros,
                                     !.twin_int =
                                         base_preverification_gas(gas_call.twin)],
                                 base_preverification_gas(to_list(gas_call)))
    /\ UNCHANGED <<chain_id, estimate_gas_with_override_enabled, gas_history>>

\* Lines 716-739 from the base: on Optimism and Arbitrum the call awaits the node's
\* answer.
PreverificationGasEntry(c0) ==
    LET packed == packed_for_preverification_gas(to_list(c0))
        c == [c0 EXCEPT !.zeros = packed.zeros, !.nonzeros = packed.nonzeros,
                        !.base = base_preverification_gas(to_list(c0)),
                        !.twin_base = base_preverification_gas(c0.twin)]
    IN  IF chain_id = 10 \/ chain_id = 420
        THEN [c EXCEPT !.pc = "l1_optimism", !.issued = @ \cup {"eth_call"}]
        ELSE IF chain_id = 42161
        THEN [c EXCEPT !.pc = "l1_arbitrum", !.issued = @ \cup {"eth_call"}]
        ELSE ReturnInt([c EXCEPT !.twin_int = adjusted_preverification_gas(
                                     c.twin_base, 0, c.coefficient, c.constant)],
                       adjusted_preverification_gas(
                           c.base, 0, c.coefficient, c.constant))

\* Lines 707-726.
GetPreverificationGasStart ==
    /\ gas_call.pc = "idle"
    /\ gas_call' = PreverificationGasEntry(
                       [gas_call EXCEPT !.method = "get_preverification_gas"])
    /\ UNCHANGED <<chain_id, estimate_gas_with_override_enabled, gas_history>>

\* Lines 655-665.
l1_gas_estimate_optimism(l1_fee, max_fee_per_gas, max_priority_fee_per_gas, base_fee) ==
    LET sum == max_priority_fee_per_gas + base_fee
        lower == IF max_fee_per_gas < sum THEN max_fee_per_gas ELSE sum
        l2_gas_price == IF lower < 1 THEN 1 ELSE lower
    IN  CeilDiv(l1_fee, l2_gas_price)

\* Lines 722-739, from the answer of the gas oracle (Optimism) or of the
\* NodeInterface (Arbitrum): v for the operation, twin_v for its twin. The request
\* carries the operation's own list (lines 622 and 672), so the answers are the
\* same only when the lists are.
L1Response(v, twin_v) ==
    /\ gas_call.pc \in {"l1_optimism", "l1_arbitrum"}
    /\ to_list(gas_call) = gas_call.twin => twin_v = v
    /\ LET l1_gas(fee) == IF gas_call.pc = "l1_optimism"
                          THEN l1_gas_estimate_optimism(fee, gas_call.max_fee_per_gas,
                                                        PriorityFeePerGas, BaseFee)
                          ELSE fee
       IN  gas_call' = ReturnInt(
                           [gas_call EXCEPT !.twin_int =
                               adjusted_preverification_gas(gas_call.twin_base,
                                   l1_gas(twin_v), gas_call.coefficient,
                                   gas_call.constant)],
                           adjusted_preverification_gas(gas_call.base, l1_gas(v),
                               gas_call.coefficient, gas_call.constant))
    /\ UNCHANGED <<chain_id, estimate_gas_with_override_enabled, gas_history>>

\* ------------------------------------------------------ call gas limit
\* Lines 134-143: the arguments are bound.
EstimateCallGasLimitStart(init_code_empty, override_empty, call_data, T) ==
    /\ BeginCall("estimate_call_gas_limit")
    /\ gas_call' = CallGasLimitEntry(
                       [IdleCall EXCEPT !.method = "estimate_call_gas_limit",
                                        !.init_code_empty = init_code_empty,
                                        !.override_empty = override_empty,
                                        !.zeros = call_data.zeros,
                                        !.nonzeros = call_data.nonzeros, !.T = T])
    /\ UNCHANGED <<chain_id, estimate_gas_with_override_enabled>>

\* Line 390, with the second code left out.
is_method_not_found_32601_only(code) == code = -32601

\* Line 390: the error codes that raise MethodNotFoundException.
is_method_not_found(code) == code = -32601 \/ code = -32602

\* Lines 385-403, 236-244 and 159-161: the node answers eth_estimateGas with an
\* error (of the given code) or with an estimate.
EthEstimateGasResponse(is_error, code, estimate) ==
    /\ gas_call.pc = "eth_estimateGas"
    /\ IF is_error /\ is_method_not_found(code)
       THEN /\ estimate_gas_with_override_enabled' = FALSE
            /\ gas_history' = [gas_history EXCEPT !.method_not_found = TRUE]
            /\ gas_call' = [gas_call EXCEPT !.pc = "helper_max",
                                            !.error_code = code,
                                            !.issued = @ \cup {"eth_call"}]
       ELSE IF is_error
       THEN /\ gas_call' = Raise([gas_call EXCEPT !.error_code = code],
                                 "ExecutionException")
            /\ UNCHANGED <<estimate_gas_with_override_enabled, gas_history>>
       ELSE LET call_data_cost == gas_call.zeros * 4 + gas_call.nonzeros * 16
                call_gas_limit == int_base16(hex(estimate)) - (21000 + call_data_cost)
            IN  /\ gas_call' = ReturnHex(gas_call, hex(call_gas_limit))
                /\ UNCHANGED <<estimate_gas_with_override_enabled, gas_history>>
    /\ UNCHANGED chain_id

\* The helper's answer to testCallGas at the given call gas limit.
helper_success(T, call_gas_limit) == call_gas_limit >= T

\* 2**index * gas_used, not computed beyond the first value above
\* MAX_CALL_GAS_LIMIT (lines 215-216 replace every such value by the limit).
RECURSIVE pow2_times(_, _)
pow2_times(index, gas_used) ==
    IF index = 0 \/ gas_used > MAX_CALL_GAS_LIMIT THEN gas_used
    ELSE pow2_times(index - 1, 2 * gas_used)

\* Lines 296-299, with the branches exchanged.
binary_search_step_swapped(left, right, mid, success) ==
    IF success THEN [left |-> mid + 1, right |-> right]
    ELSE [left |-> left, right |-> mid]

\* Lines 296-299.
binary_search_step(left, right, mid, success) ==
    IF success THEN [left |-> left, right |-> mid]
    ELSE [left |-> mid + 1, right |-> right]

\* Lines 284-285 and 301-302: the loop test; the next request, or the return.
BinarySearchLoop(c) ==
    IF c.left + SearchTolerance < c.right
    THEN [c EXCEPT !.pc = "search",
                   !.mid = c.left + CeilDiv(c.right - c.left, 2)]
    ELSE ReturnHex(c, hex(c.right))

\* Lines 218 and 273: find_max_min_gas returns (max_gas, min_gas), taken as
\* (right, left); its locals are gone.
ReturnMaxMin(c) ==
    BinarySearchLoop([c EXCEPT !.right = c.max_gas, !.left = c.min_gas,
                               !.gas_used = 0, !.index = 0,
                               !.min_gas = 0, !.max_gas = 0])

\* Lines 197-198: the loop test of find_max_min_gas; the next request, or the return.
ExpansionLoop(c) ==
    IF c.max_gas < MAX_CALL_GAS_LIMIT
    THEN [c EXCEPT !.pc = "expand"]
    ELSE ReturnMaxMin(c)

\* Lines 256-273 and 193-197: the helper's answer at MAX_CALL_GAS_LIMIT.
HelperAtMax(gas_used) ==
    /\ gas_call.pc = "helper_max"
    /\ gas_call' =
           IF ~helper_success(gas_call.T, MAX_CALL_GAS_LIMIT)
           THEN Raise(gas_call, "ExecutionException")
           ELSE ExpansionLoop([gas_call EXCEPT !.gas_used = gas_used, !.g0 = gas_used,
                                               !.index = 1, !.min_gas = gas_used,
                                               !.max_gas = 2 * gas_used])
    /\ UNCHANGED <<chain_id, estimate_gas_with_override_enabled, gas_history>>

\* Lines 198-218: the helper's answer at max_gas.
ExpandStep(gas_used) ==
    /\ gas_call.pc = "expand"
    /\ gas_call.iters < MaxIter
    /\ LET c == [gas_call EXCEPT !.gas_used = gas_used, !.iters = @ + 1]
       IN  gas_call' =
               IF helper_success(c.T, c.max_gas)
               THEN ReturnMaxMin(c)
               ELSE LET index == c.index + 1
                        grown == pow2_times(index, gas_used)
                    IN  ExpansionLoop([c EXCEPT
                            !.index = index, !.min_gas = c.max_gas,
                            !.max_gas = IF grown > MAX_CALL_GAS_LIMIT
                                        THEN MAX_CALL_GAS_LIMIT ELSE grown])
    /\ UNCHANGED <<chain_id, estimate_gas_with_override_enabled, gas_history>>

\* Lines 286-302: the helper's answer at mid (the gas_used it carries is assigned
\* and never read).
SearchStep(gas_used) ==
    /\ gas_call.pc = "search"
    /\ gas_call.iters < MaxIter
    /\ LET c == [gas_call EXCEPT !.iters = @ + 1]
           r == binary_search_step(c.left, c.right, c.mid,
                                   helper_success(c.T, c.mid))
       IN  gas_call' = BinarySearchLoop([c EXCEPT !.left = r.left,
                                                  !.right = r.right])
    /\ UNCHANGED <<chain_id, estimate_gas_with_override_enabled, gas_history>>

\* ------------------------------------------------ verification gas limit
\* Kinds of answer to the simulateHandleOp eth_call: a result without an error; an
\* error that is no revert with data; a revert whose data starts with the selector
\* of ExecutionResult, of FailedOp, of Error(string), or with another one.
SimulateAnswers == {"no_error", "no_revert_data", "0x8b7ac980", "0x220266b6",
                    "0x08c379a0", "other_selector"}

\* Lines 493-522 with the FailedOp payload returned like an ExecutionResult.
simulate_handle_op_failed_op_returned(answer) ==
    IF answer = "no_error" THEN "ValueError"
    ELSE IF answer \in {"0x8b7ac980", "0x220266b6"} THEN "ok"
    ELSE "ValidationException"

\* Lines 477-524: the exception raised, or "ok" when preOpGas is returned.
simulate_handle_op(answer) ==
    IF answer = "no_error" THEN "ValueError"
    ELSE IF answer = "0x8b7ac980" THEN "ok"
    ELSE "ValidationException"

\* Lines 478-522: what the exception raised carries.
simulate_handle_op_detail(answer) ==
    IF answer = "no_error" THEN "simulateHandleOp didn't revert!"
    ELSE IF answer = "no_revert_data" THEN "error message"
    ELSE IF answer = "0x8b7ac980" THEN "none"
    ELSE IF answer \in {"0x220266b6", "0x08c379a0"} THEN "decoded reason"
    ELSE "raw params"

\* Lines 106-113: the arguments are bound.
EstimateVerificationGasLimitStart(pre_verification_gas) ==
    /\ BeginCall("estimate_verification_gas_limit")
    /\ gas_call' = VerificationGasLimitEntry(
                       [IdleCall EXCEPT !.method = "estimate_verification_gas_limit",
                                        !.pre_verification_gas = pre_verification_gas])
    /\ UNCHANGED <<chain_id, estimate_gas_with_override_enabled>>

\* Lines 120-132.
SimulateHandleOpResponse(answer, preOpGas) ==
    /\ gas_call.pc = "simulate_handle_op"
    /\ LET outcome == simulate_handle_op(answer)
           verification_gas_limit == preOpGas - gas_call.pre_verification_gas
           c == [gas_call EXCEPT !.answer = answer,
                                 !.detail = simulate_handle_op_detail(answer),
                                 !.preOpGas = IF outcome = "ok" THEN preOpGas ELSE 0]
       IN  gas_call' = IF outcome = "ok"
                       THEN ReturnHex(c, hex(verification_gas_limit))
                       ELSE Raise(c, outcome)
    /\ UNCHANGED <<chain_id, estimate_gas_with_override_enabled, gas_history>>

\* ------------------------------------------------- the three limits
\* Lines 64-71 of estimate_callgaslimit_and_preverificationgas_and_verificationgas:
\* the latest block is awaited. The arguments are the ones the idle record holds.
EstimateLimitsStart ==
    /\ gas_call.pc = "idle"
    /\ gas_call' = [gas_call EXCEPT
           !.method = "estimate_callgaslimit_and_preverificationgas_and_verificationgas",
           !.pc = "latest_block", !.outer = "latest_block",
           !.issued = {"eth_getBlockByNumber"}]
    /\ UNCHANGED <<chain_id, estimate_gas_with_override_enabled, gas_history>>

\* Lines 71-77: with the block, get_preverification_gas is called.
LatestBlockInfo ==
    /\ gas_call.pc = "latest_block"
    /\ gas_call' = PreverificationGasEntry([gas_call EXCEPT !.outer = "pvg"])
    /\ UNCHANGED <<chain_id, estimate_gas_with_override_enabled, gas_history>>

\* Lines 593-602 of verify_preverification_gas_and_verification_gas_limit:
\* get_preverification_gas is called. The arguments are the ones the idle record
\* holds.
VerifyLimitsStart ==
    /\ gas_call.pc = "idle"
    /\ gas_call' = PreverificationGasEntry(
           [gas_call EXCEPT
               !.method = "verify_preverification_gas_and_verification_gas_limit",
               !.outer = "verify"])
    /\ UNCHANGED <<chain_id, estimate_gas_with_override_enabled, gas_history>>

\* ------------------------------------------------------ state overrides
\* A state-override dict maps addresses to entries; an entry is modelled as the set
\* of its items, a "stateDiff" item for every slot of its sub-dict. origin tells the
\* caller's values from the defaults.
Item(field, slot, origin) == [field |-> field, slot |-> slot, origin |-> origin]

\* Python's d1 | d2 on dicts: the keys of both, the value of d2 for a key of d2.
dict_union(d1, d2) ==
    [k \in (DOMAIN d1) \cup (DOMAIN d2) |-> IF k \in DOMAIN d2 THEN d2[k] ELSE d1[k]]

\* Lines 323-328.
helper_default_state_overrides ==
    [k \in {"entrypoint"} |-> {Item("code", "none", "default")}]

\* Lines 428-458 with the test of the target left out.
simulate_default_state_overrides_no_target(has_paymaster, target_is_zero) ==
    LET zero == [k \in {"ZERO_ADDRESS"} |-> {Item("balance", "none", "default")}]
    IN  IF ~has_paymaster
        THEN dict_union(zero, [k \in {"sender_address"} |->
                                  {Item("balance", "none", "default")}])
        ELSE dict_union(zero, [k \in {"entrypoint"} |->
                    {Item("stateDiff", "paymaster_deposit_slot", "default")}])

\* Lines 428-458.
simulate_default_state_overrides(has_paymaster, target_is_zero) ==
    LET zero == [k \in {"ZERO_ADDRESS"} |-> {Item("balance", "none", "default")}]
    IN  IF ~has_paymaster
        THEN IF target_is_zero
             THEN dict_union(zero, [k \in {"sender_address"} |->
                                       {Item("balance", "none", "default")}])
             ELSE dict_union(zero, [k \in {"entrypoint"} |->
                         {Item("stateDiff", "sender_deposit_slot", "default")}])
        ELSE dict_union(zero, [k \in {"entrypoint"} |->
                    {Item("stateDiff", "paymaster_deposit_slot", "default")}])

\* Lines 317-341: get_call_data_gas_used builds its request and sends it. The
\* arguments are the ones the idle record holds.
GetCallDataGasUsedRequest ==
    /\ gas_call.pc = "idle"
    /\ LET default_state_overrides == helper_default_state_overrides
       IN  gas_call' = [gas_call EXCEPT
                           !.method = "get_call_data_gas_used",
                           !.pc = "eth_call_sent",
                           !.issued = {"eth_call"},
                           !.default_state_overrides = default_state_overrides,
                           !.request_overrides =
                               dict_union(default_state_overrides,
                                          gas_call.state_override_set_dict)]
    /\ UNCHANGED <<chain_id, estimate_gas_with_override_enabled, gas_history>>

\* Lines 415-475: simulate_handle_op builds its request and sends it.
SimulateHandleOpRequest ==
    /\ gas_call.pc = "idle"
    /\ LET default_state_overrides ==
               simulate_default_state_overrides(gas_call.has_paymaster,
                                                gas_call.target_is_zero)
       IN  gas_call' = [gas_call EXCEPT
                           !.method = "simulate_handle_op",
                           !.pc = "eth_call_sent",
                           !.issued = {"eth_call"},
                           !.default_state_overrides = default_state_overrides,
                           !.request_overrides =
                               dict_union(default_state_overrides,
                                          gas_call.state_override_set_dict)]
    /\ UNCHANGED <<chain_id, estimate_gas_with_override_enabled, gas_history>>

\* ------------------------------------------------------------ gas fees
\* The percentages are multiples of 50, for which the float products of lines 547
\* and 548 are exact.
Tolerances == {0, 50, 100}

Multipliers == {100, 200}

OpFees == 0..3

NodeGasPrices == 0..4

NodePriorityFees == 0..2

\* Line 552.
tolerance_enforced(enforce_gas_price_tolerance) == enforce_gas_price_tolerance < 100

\* Lines 552-589: the code of the ValidationException raised, or "ok".
verify_gas_fees(c) ==
    IF ~tolerance_enforced(c.tolerance) THEN "ok"
    ELSE IF c.is_legacy_mode
    THEN IF c.max_fee_per_gas < c.block_max_fee_per_gas_with_tolerance
         THEN "SimulateValidation" ELSE "ok"
    ELSE LET diff == c.block_max_fee_per_gas - c.block_max_priority_fee_per_gas
             estimated_base_fee == IF diff > 1 THEN diff ELSE 1
             sum == estimated_base_fee + c.max_priority_fee_per_gas
             lower == IF c.max_fee_per_gas < sum THEN c.max_fee_per_gas ELSE sum
         IN  IF c.max_fee_per_gas < estimated_base_fee THEN "InvalidFields"
             ELSE IF c.max_priority_fee_per_gas < 1 THEN "InvalidFields"
             ELSE IF lower < c.block_max_fee_per_gas_with_tolerance
             THEN "InvalidFields"
             ELSE "ok"

\* Lines 526-543: the requests are sent and gathered. The arguments are the ones
\* the idle record holds.
VerifyGasFeesStart ==
    /\ gas_call.pc = "idle"
    /\ gas_call' = [gas_call EXCEPT
                       !.method = "verify_gas_fees_and_get_price",
                       !.pc = "gas_price",
                       !.issued = IF gas_call.is_legacy_mode
                                  THEN {"eth_gasPrice"}
                                  ELSE {"eth_gasPrice", "eth_maxPriorityFeePerGas"}]
    /\ UNCHANGED <<chain_id, estimate_gas_with_override_enabled, gas_history>>

\* Lines 545-591, from the node's answers.
GasPriceResponse(gas_price, priority_fee) ==
    /\ gas_call.pc = "gas_price"
    /\ LET block_max_fee_per_gas == CeilDiv(gas_price * gas_call.multiplier, 100)
           c == [gas_call EXCEPT
                    !.priority_fee_answer =
                        IF gas_call.is_legacy_mode THEN 0 ELSE priority_fee,
                    !.block_max_fee_per_gas = block_max_fee_per_gas,
                    !.block_max_fee_per_gas_with_tolerance =
                        CeilDiv(block_max_fee_per_gas * (100 - gas_call.tolerance),
                                100),
                    !.block_max_priority_fee_per_gas =
                        IF ~tolerance_enforced(gas_call.tolerance) THEN 0
                        ELSE IF gas_call.is_legacy_mode THEN block_max_fee_per_gas
                        ELSE CeilDiv(priority_fee * gas_call.multiplier, 100)]
           outcome == verify_gas_fees(c)
       IN  gas_call' = IF outcome = "ok"
                       THEN ReturnHex(c, hex(gas_price))
                       ELSE Raise([c EXCEPT !.detail = outcome],
                                  "ValidationException")
    /\ UNCHANGED <<chain_id, estimate_gas_with_override_enabled, gas_history>>

\* --------------------------------- ValidationManager (src/bundler)
\* Kinds of answer to the simulateValidation eth_call: a result without an error; an
\* error whose message is not "execution reverted"; a revert whose data starts with
\* the selector of ValidationResult, of FailedOp, or with another one.
ValidationAnswers == {"no_error", "other_message", "ValidationResult_selector",
                      "FailedOp_selector", "other_selector"}

\* validation_manager.py lines 129-136, with a result taken for a revert.
simulate_validation_result_accepted(answer) ==
    IF answer = "other_message" THEN "ValueError" ELSE "reverted"

\* validation_manager.py lines 129-143: ValueError, or the selector and the params.
simulate_validation(answer) ==
    IF answer \in {"no_error", "other_message"} THEN "ValueError" ELSE "reverted"

\* validation_manager.py lines 34-59; decodes: whether the params decode under
\* VALIDATION_RESULT_ABI (eth_abi raises when they do not).
simulate_validation_and_decode_result(answer, decodes) ==
    IF simulate_validation(answer) = "ValueError" THEN "ValueError"
    ELSE IF answer = "FailedOp_selector" THEN "BundlerException"
    ELSE IF decodes THEN "Valid"
    ELSE "DecodingError"

\* validation_manager.py lines 38-40: the eth_call is awaited.
SimulateValidationStart ==
    /\ BeginCall("simulate_validation_and_decode_result")
    /\ gas_call' = [IdleCall EXCEPT
                       !.method = "simulate_validation_and_decode_result",
                       !.pc = "simulate_validation", !.issued = {"eth_call"}]
    /\ UNCHANGED <<chain_id, estimate_gas_with_override_enabled>>

\* validation_manager.py lines 42-59 and 126-143.
SimulateValidationResponse(answer, decodes) ==
    /\ gas_call.pc = "simulate_validation"
    /\ LET outcome == simulate_validation_and_decode_result(answer, decodes)
           c == [gas_call EXCEPT
                    !.answer = answer,
                    !.detail = IF outcome = "ValueError"
                               THEN "simulateValidation didn't revert!"
                               ELSE IF outcome = "BundlerException"
                               THEN "decoded reason" ELSE "none"]
       IN  gas_call' = IF outcome = "Valid" THEN ReturnInt(c, 0)
                       ELSE Raise(c, outcome)
    /\ UNCHANGED <<chain_id, estimate_gas_with_override_enabled, gas_history>>

\* ------------------------------------------------------------------ Init
\* After construction the maps are empty; the ReputationManager handed to the
\* constructor may already have seen ops of one entity, enough to make it
\* THROTTLED or BANNED.
Init ==
    /\ senders = <<>>
    /\ heap = <<>>
    /\ entity_no_of_ops_in_mempool = <<>>
    /\ ops_seen \in {seen \in [Addrs -> {0, ThrottleThreshold + 1, BanThreshold + 1}] :
                        Cardinality({a \in Addrs : seen[a] # 0}) <= 1}
    /\ calls = <<>>
    /\ bundles = <<>>
    /\ extracted = <<>>
    /\ recomputed = {}
    /\ clearedObjs = {}
    /\ chain_id = 1
    /\ estimate_gas_with_override_enabled = TRUE
    /\ gas_call = IdleCall
    /\ gas_history = [n |-> 0, method_not_found |-> FALSE]

\* ---------------------------------------------------- add_user_operation
\* A call's record holds, besides the coroutine's locals, what is remembered of the
\* state it started in: pre (the observable state), thr0 (its entities that were
\* THROTTLED with no op in the mempool), rivals (the calls in flight that referenced
\* one of these), banned0 (whether one of its entities was BANNED).
\* The record of a call that has returned or raised keeps its outcome, whether the
\* ValidationManager was invoked, rivals and banned0.
DoneCall(c, result) ==
    [c EXCEPT !.pc = "done", !.result = result, !.new_sender = 0, !.pre = NoView,
              !.op = [NoOp EXCEPT !.id = c.op.id], !.raised = FALSE, !.thr0 = {}]

\* Lines 52-59: the reputation checks, then the await of validate_user_operation.
AddStart(s, f, p, n) ==
    /\ Len(calls) < MaxOps
    /\ LET op == NewOp(Len(calls) + 1, s, f, p, n)
           r == verify_entities_reputation(senders, heap,
                                           entity_no_of_ops_in_mempool, ops_seen, op)
           c == [op |-> op, pc |-> "validate", new_sender |-> 0, pre |-> View,
                 result |-> "pending", validated |-> TRUE, raised |-> FALSE,
                 thr0 |-> {a \in associated_addresses(op) :
                              /\ get_status(ops_seen, a) = "THROTTLED"
                              /\ QueuedAsSender(a) + QueuedAsEntity(a) = 0},
                 rivals |-> {i \in InFlightCalls :
                              calls[i].thr0 \cap associated_addresses(op) # {}},
                 banned0 |-> \E a \in associated_addresses(op) :
                                get_status(ops_seen, a) = "BANNED"]
       IN  /\ entity_no_of_ops_in_mempool' = r.ent
           /\ calls' = Append(calls,
                  IF r.res = "ok" THEN c
                  ELSE DoneCall([c EXCEPT !.validated = FALSE], r.res))
    /\ UNCHANGED <<senders, heap, ops_seen, bundles, extracted, recomputed,
                   clearedObjs>>

\* Lines 59-71: validate_user_operation raises, or returns with the op's code
\* hash pinned; then the Sender is looked up or created, and the gather of the
\* queue append and the hashing is awaited.
Validate(i, ok) ==
    /\ i \in DOMAIN calls
    /\ calls[i].pc = "validate"
    /\ IF ~ok
       THEN /\ calls' = [calls EXCEPT ![i] = DoneCall(@, "Validation")]
            /\ UNCHANGED <<senders, heap>>
       ELSE LET op == calls[i].op
                has == HasSender(senders, op.sender)
                obj == IF has THEN SenderObj(senders, op.sender) ELSE Len(heap) + 1
                pinned == [op EXCEPT !.code_hash = PinnedHash]
            IN  /\ senders' = IF has THEN senders
                              ELSE Append(senders, [address |-> op.sender, obj |-> obj])
                /\ heap' = IF has THEN heap
                           ELSE Append(heap, [address |-> op.sender,
                                              user_operations |-> <<>>])
                /\ calls' = [calls EXCEPT ![i].pc = "append", ![i].op = pinned,
                                          ![i].new_sender = obj]
    /\ UNCHANGED <<entity_no_of_ops_in_mempool, ops_seen, bundles,
                   extracted, recomputed, clearedObjs>>

\* Lines 72-75: the task that gather runs for new_sender.add_user_operation.
SenderAdd(i) ==
    /\ i \in DOMAIN calls
    /\ calls[i].pc = "append"
    /\ LET c == calls[i]
           op == [c.op EXCEPT !.obj = c.new_sender]
           r == sender_add_user_operation(heap[c.new_sender].user_operations, op)
       IN  /\ heap' = [heap EXCEPT ![c.new_sender].user_operations = r.user_operations]
           /\ calls' = [calls EXCEPT ![i].pc = "gather", ![i].raised = r.raised,
                                     ![i].op = IF r.raised THEN c.op ELSE op]
    /\ UNCHANGED <<senders, entity_no_of_ops_in_mempool, ops_seen, bundles,
                   extracted, recomputed, clearedObjs>>

\* Lines 92-100: the in-mempool counts of the op's factory and paymaster.
update_entity_counts(ent, op) ==
    LET e1 == IF op.factory # None
              THEN update_entity_no_of_ops_in_mempool(ent, op.factory) ELSE ent
    IN  IF op.paymaster # None
        THEN update_entity_no_of_ops_in_mempool(e1, op.paymaster) ELSE e1

\* The seen counters are updated before the outcome of the gather is looked at.
AddResumeSeenFirst(i) ==
    /\ i \in DOMAIN calls
    /\ calls[i].pc = "gather"
    /\ ops_seen' = update_all_seen_status(ops_seen, calls[i].op)
    /\ IF calls[i].raised
       THEN /\ calls' = [calls EXCEPT ![i] = DoneCall(@, "InvalidFields")]
            /\ UNCHANGED entity_no_of_ops_in_mempool
       ELSE /\ entity_no_of_ops_in_mempool' =
                   update_entity_counts(entity_no_of_ops_in_mempool, calls[i].op)
            /\ calls' = [calls EXCEPT ![i] = DoneCall(@, "hash")]
    /\ UNCHANGED <<senders, heap, bundles, extracted, recomputed, clearedObjs>>

\* Lines 71-102: the gather is over; on success the seen counters and the entity
\* counts are updated and the hash is returned.
AddResume(i) ==
    /\ i \in DOMAIN calls
    /\ calls[i].pc = "gather"
    /\ IF calls[i].raised
       THEN /\ calls' = [calls EXCEPT ![i] = DoneCall(@, "InvalidFields")]
            /\ UNCHANGED <<ops_seen, entity_no_of_ops_in_mempool>>
       ELSE /\ ops_seen' = update_all_seen_status(ops_seen, calls[i].op)
            /\ entity_no_of_ops_in_mempool' =
                   update_entity_counts(entity_no_of_ops_in_mempool, calls[i].op)
            /\ calls' = [calls EXCEPT ![i] = DoneCall(@, "hash")]
    /\ UNCHANGED <<senders, heap, bundles, extracted, recomputed, clearedObjs>>

\* The task running add_user_operation is cancelled while it is suspended at line
\* 59 or at line 71: CancelledError is raised at the await, no handler of lines
\* 52-102 catches it, and what the call has written so far stays written.
Cancel(i) ==
    /\ i \in DOMAIN calls
    /\ calls[i].pc \in {"validate", "append", "gather"}
    /\ calls' = [calls EXCEPT ![i] = DoneCall(@, "Cancelled")]
    /\ UNCHANGED <<senders, heap, entity_no_of_ops_in_mempool, ops_seen, bundles,
                   extracted, recomputed, clearedObjs>>

\* ----------------------------------------- get_user_operations_to_bundle
\* Line 107: list(self.senders), the keys in insertion order.
SenderKeysReversed(S) == [i \in DOMAIN S |-> S[Len(S) + 1 - i].address]

SenderKeys(S) == [i \in DOMAIN S |-> S[i].address]

\* Line 110: user_operations.pop(0), the op taken and the queue left.
pop_last(queue) ==
    [op |-> queue[Len(queue)], rest |-> SubSeq(queue, 1, Len(queue) - 1)]

pop_first(queue) == [op |-> Head(queue), rest |-> Tail(queue)]

\* Line 117: the recomputed hash differs from the pinned one.
never_differs(new_code_hash, op) == FALSE

code_hash_differs(new_code_hash, op) == new_code_hash # op.code_hash

\* Lines 107-109: the addresses of the snapshot passed over without an await,
\* those whose Sender is in the map with an empty queue.
RECURSIVE SkipEmpty(_, _, _)
SkipEmpty(todo, S, H) ==
    IF todo = <<>> THEN <<>>
    ELSE IF /\ HasSender(S, Head(todo))
            /\ H[SenderObj(S, Head(todo))].user_operations = <<>>
         THEN SkipEmpty(Tail(todo), S, H)
         ELSE todo

\* The record of a call that has returned its bundle ("done") or raised ("error").
EndBundle(rec, pc) ==
    [rec EXCEPT !.pc = pc, !.todo = <<>>, !.sender = 0, !.op = NoOp]

\* Lines 107-113 and 124-126: the loop runs until it awaits the code hash of a
\* popped op, returns the bundle, or fails on a key the map no longer holds.
BundleLoop(rec, S, H) ==
    LET rest == SkipEmpty(rec.todo, S, H)
    IN  IF rest = <<>>
        THEN [rec |-> EndBundle(rec, "done"), heap |-> H, popped |-> <<>>]
        ELSE IF ~HasSender(S, Head(rest))
        THEN [rec |-> EndBundle(rec, "error"), heap |-> H, popped |-> <<>>]
        ELSE LET obj == SenderObj(S, Head(rest))
                 taken == pop_first(H[obj].user_operations)
                 op == taken.op
             IN  [rec |-> [rec EXCEPT !.pc = "hash", !.todo = Tail(rest),
                                      !.sender = obj, !.op = op],
                  heap |-> [H EXCEPT ![obj].user_operations = taken.rest],
                  popped |-> <<[id |-> op.id, sender |-> op.sender]>>]

\* Lines 104-113: the snapshot of the keys, and the loop up to its first await.
\* On an empty map the call returns an empty bundle, changes nothing and is left
\* out.
BundleStart ==
    /\ Len(bundles) < MaxBundles
    /\ senders # <<>>
    /\ LET rec == [pc |-> "loop", todo |-> SenderKeys(senders), sender |-> 0,
                   op |-> NoOp, bundle |-> <<>>]
           r == BundleLoop(rec, senders, heap)
       IN  /\ bundles' = Append(bundles, r.rec)
           /\ heap' = r.heap
           /\ extracted' = extracted \o r.popped
    /\ UNCHANGED <<senders, entity_no_of_ops_in_mempool, ops_seen, calls,
                   recomputed, clearedObjs>>

\* Lines 112-122, then the loop again: the recomputed code hash arrives.
BundleResume(b, new_code_hash) ==
    /\ b \in DOMAIN bundles
    /\ bundles[b].pc = "hash"
    /\ LET rec == bundles[b]
           op == rec.op
           sender == heap[rec.sender]
       IN  /\ recomputed' = recomputed \cup
                  {[id |-> op.id, code_hash |-> op.code_hash,
                    new_code_hash |-> new_code_hash]}
           /\ IF code_hash_differs(new_code_hash, op)
              THEN LET r == BundleLoop(rec, senders, heap)
                   IN  /\ bundles' = [bundles EXCEPT ![b] = r.rec]
                       /\ heap' = r.heap
                       /\ extracted' = extracted \o r.popped
                       /\ UNCHANGED senders
              ELSE LET rec1 == [rec EXCEPT !.bundle = Append(@, op)]
                   IN  IF sender.user_operations # <<>>
                       THEN LET r == BundleLoop(rec1, senders, heap)
                            IN  /\ bundles' = [bundles EXCEPT ![b] = r.rec]
                                /\ heap' = r.heap
                                /\ extracted' = extracted \o r.popped
                                /\ UNCHANGED senders
                       ELSE IF ~HasSender(senders, sender.address)
                       THEN /\ bundles' = [bundles EXCEPT ![b] =
                                              EndBundle(rec1, "error")]
                            /\ UNCHANGED <<senders, heap, extracted>>
                       ELSE LET S1 == DelSender(senders, sender.address)
                                r == BundleLoop(rec1, S1, heap)
                            IN  /\ senders' = S1
                                /\ bundles' = [bundles EXCEPT ![b] = r.rec]
                                /\ heap' = r.heap
                                /\ extracted' = extracted \o r.popped
    /\ UNCHANGED <<entity_no_of_ops_in_mempool, ops_seen, calls, clearedObjs>>

\* ------------------------------------------------- clear_user_operations
\* Line 50. On an empty map the call changes nothing and is left out.
Clear ==
    /\ senders # <<>>
    /\ senders' = <<>>
    /\ clearedObjs' = clearedObjs \cup {senders[i].obj : i \in DOMAIN senders}
    /\ UNCHANGED <<heap, entity_no_of_ops_in_mempool, ops_seen, calls, bundles,
                   extracted, recomputed>>

\* -------------------------------------------------------- specifications
Submit ==
    \E s \in SenderAddrs, f \in EntityAddrs \cup {None},
       p \in EntityAddrs \cup {None}, n \in Nonces : AddStart(s, f, p, n)

Validation == \E i \in DOMAIN calls, ok \in BOOLEAN : Validate(i, ok)

QueueAppend == \E i \in DOMAIN calls : SenderAdd(i)

Admit == \E i \in DOMAIN calls : AddResume(i)

CodeHash == \E b \in DOMAIN bundles, h \in CodeHashes : BundleResume(b, h)

\* Calls made one after the other: a call starts when no call is in flight.
Next ==
    \/ ~Busy /\ Submit /\ UNCHANGED gvars
    \/ ~Busy /\ BundleStart /\ UNCHANGED gvars
    \/ ~Busy /\ Clear /\ UNCHANGED gvars
    \/ Validation /\ UNCHANGED gvars
    \/ QueueAppend /\ UNCHANGED gvars
    \/ Admit /\ UNCHANGED gvars
    \/ CodeHash /\ UNCHANGED gvars

Spec == Init /\ [][Next]_vars

\* Calls interleaved at their await points.
Free == Cardinality(InFlightCalls) + Cardinality(InFlightBundles) < MaxInFlight

NextAsync ==
    \/ Free /\ Submit /\ UNCHANGED gvars
    \/ Free /\ BundleStart /\ UNCHANGED gvars
    \/ Clear /\ UNCHANGED gvars
    \/ Validation /\ UNCHANGED gvars
    \/ QueueAppend /\ UNCHANGED gvars
    \/ Admit /\ UNCHANGED gvars
    \/ CodeHash /\ UNCHANGED gvars

SpecAsync == Init /\ [][NextAsync]_vars

\* Calls made one after the other, each of which its caller may cancel.
Cancellation == \E i \in DOMAIN calls : Cancel(i)

NextCancel ==
    \/ ~Busy /\ Submit /\ UNCHANGED gvars
    \/ ~Busy /\ BundleStart /\ UNCHANGED gvars
    \/ ~Busy /\ Clear /\ UNCHANGED gvars
    \/ Validation /\ UNCHANGED gvars
    \/ QueueAppend /\ UNCHANGED gvars
    \/ Admit /\ UNCHANGED gvars
    \/ CodeHash /\ UNCHANGED gvars
    \/ Cancellation /\ UNCHANGED gvars

SpecCancel == Init /\ [][NextCancel]_vars

\* The GasManager alone, its methods called one after the other on one instance.
InitGas ==
    /\ senders = <<>>
    /\ heap = <<>>
    /\ entity_no_of_ops_in_mempool = <<>>
    /\ ops_seen = [a \in Addrs |-> 0]
    /\ calls = <<>>
    /\ bundles = <<>>
    /\ extracted = <<>>
    /\ recomputed = {}
    /\ clearedObjs = {}
    /\ chain_id = 1
    /\ estimate_gas_with_override_enabled = TRUE
    /\ gas_call = IdleCall
    /\ gas_history = [n |-> 0, method_not_found |-> FALSE]

L1Answer == \E v \in L1Values, twin_v \in L1Values : L1Response(v, twin_v)

CallGasLimit ==
    \E init_code_empty \in BOOLEAN, override_empty \in BOOLEAN,
       call_data \in CallDatas, T \in HelperThresholds :
        EstimateCallGasLimitStart(init_code_empty, override_empty, call_data, T)

EstimateGasAnswer ==
    \/ \E code \in {-32601, -32602, -32000} : EthEstimateGasResponse(TRUE, code, 0)
    \/ \E estimate \in EstimateGasValues : EthEstimateGasResponse(FALSE, 0, estimate)

HelperAnswerAtMax == \E gas_used \in GasUsedValues : HelperAtMax(gas_used)

HelperAnswerExpand == \E gas_used \in GasUsedValues : ExpandStep(gas_used)

HelperAnswerSearch == \E gas_used \in GasUsedValues : SearchStep(gas_used)

VerificationGasLimit ==
    \E p \in PreVerificationGasValues : EstimateVerificationGasLimitStart(p)

SimulateAnswer ==
    \E answer \in SimulateAnswers, preOpGas \in PreOpGasValues :
        SimulateHandleOpResponse(answer, preOpGas)

ValidationAnswer ==
    \E answer \in ValidationAnswers, decodes \in BOOLEAN :
        SimulateValidationResponse(answer, decodes)

NextGas ==
    \/ CallGasLimit /\ UNCHANGED mvars
    \/ EstimateGasAnswer /\ UNCHANGED mvars
    \/ HelperAnswerAtMax /\ UNCHANGED mvars
    \/ HelperAnswerExpand /\ UNCHANGED mvars
    \/ HelperAnswerSearch /\ UNCHANGED mvars
    \/ VerificationGasLimit /\ UNCHANGED mvars
    \/ SimulateAnswer /\ UNCHANGED mvars
    \/ SimulateValidationStart /\ UNCHANGED mvars
    \/ ValidationAnswer /\ UNCHANGED mvars

SpecGas == InitGas /\ [][NextGas]_vars

\* The pre-verification gas of one operation: a function of the operation's
\* bytes, the chain and the node's answer, applied to arguments drawn at the start.
Signatures == {[len |-> 0, zeros |-> 0], [len |-> 64, zeros |-> 0],
               [len |-> 64, zeros |-> 10], [len |-> 65, zeros |-> 0],
               [len |-> 65, zeros |-> 2], [len |-> 70, zeros |-> 0]}

Bodies == {[zeros |-> Z, nonzeros |-> NZ] : Z \in {0, 3}, NZ \in 0..MaxBodyLen}

\* The lists that differ from a list only in preVerificationGas, or only in a
\* signature shorter than 65 bytes.
Twins(l) ==
    {[l EXCEPT !.pre_verification_gas = p] :
         p \in PreVerificationGasValues \ {l.pre_verification_gas}}
    \cup {[l EXCEPT !.signature = sig] :
             sig \in {x \in Signatures \ {l.signature} :
                          /\ x.len < DummySignatureLen
                          /\ l.signature.len < DummySignatureLen}}

InitPvg ==
    /\ senders = <<>>
    /\ heap = <<>>
    /\ entity_no_of_ops_in_mempool = <<>>
    /\ ops_seen = [a \in Addrs |-> 0]
    /\ calls = <<>>
    /\ bundles = <<>>
    /\ extracted = <<>>
    /\ recomputed = {}
    /\ clearedObjs = {}
    /\ chain_id \in ChainIds
    /\ estimate_gas_with_override_enabled = TRUE
    /\ \E body \in Bodies, sig \in Signatures, p \in PreVerificationGasValues,
          coefficient \in PvgCoefficients, max_fee \in MaxFeesPerGas :
          /\ chain_id \notin {10, 420} => max_fee = 0
          /\ LET c == [IdleCall EXCEPT !.body = body, !.signature = sig,
                                        !.pre_verification_gas = p,
                                        !.coefficient = coefficient,
                                        !.max_fee_per_gas = max_fee]
             IN  \E twin \in Twins(to_list(c)) : gas_call = [c EXCEPT !.twin = twin]
    /\ gas_history = [n |-> 0, method_not_found |-> FALSE]

NextPvg ==
    \/ CalcBasePreverificationGas /\ UNCHANGED mvars
    \/ GetPreverificationGasStart /\ UNCHANGED mvars
    \/ L1Answer /\ UNCHANGED mvars

SpecPvg == InitPvg /\ [][NextPvg]_vars

\* Fee verification as a function of the operation's fees, the configuration and
\* the node's answers, applied to arguments drawn at the start.
InitFees ==
    /\ senders = <<>>
    /\ heap = <<>>
    /\ entity_no_of_ops_in_mempool = <<>>
    /\ ops_seen = [a \in Addrs |-> 0]
    /\ calls = <<>>
    /\ bundles = <<>>
    /\ extracted = <<>>
    /\ recomputed = {}
    /\ clearedObjs = {}
    /\ chain_id = 1
    /\ estimate_gas_with_override_enabled = TRUE
    /\ \E t \in Tolerances, m \in Multipliers, legacy \in BOOLEAN,
          max_fee \in OpFees, max_priority_fee \in OpFees :
          gas_call = [IdleCall EXCEPT !.tolerance = t, !.multiplier = m,
                                      !.is_legacy_mode = legacy,
                                      !.max_fee_per_gas = max_fee,
                                      !.max_priority_fee_per_gas = max_priority_fee]
    /\ gas_history = [n |-> 0, method_not_found |-> FALSE]

GasPriceAnswer ==
    \E gas_price \in NodeGasPrices, priority_fee \in NodePriorityFees :
        GasPriceResponse(gas_price, priority_fee)

NextFees ==
    \/ VerifyGasFeesStart /\ UNCHANGED mvars
    \/ GasPriceAnswer /\ UNCHANGED mvars

SpecFees == InitFees /\ [][NextFees]_vars

\* The requests of the two simulations as functions of the caller's state-override
\* set, of the operation's paymaster and of the target, drawn at the start.
CallerEntries == {{Item("balance", "none", "caller")},
                  {Item("code", "none", "caller")},
                  {Item("stateDiff", "caller_slot", "caller")}}

CallerOverrides ==
    UNION {[D -> CallerEntries] : D \in SUBSET {"entrypoint", "sender_address", "other"}}

InitOverrides ==
    /\ senders = <<>>
    /\ heap = <<>>
    /\ entity_no_of_ops_in_mempool = <<>>
    /\ ops_seen = [a \in Addrs |-> 0]
    /\ calls = <<>>
    /\ bundles = <<>>
    /\ extracted = <<>>
    /\ recomputed = {}
    /\ clearedObjs = {}
    /\ chain_id = 1
    /\ estimate_gas_with_override_enabled = TRUE
    /\ \E d \in CallerOverrides, has_paymaster \in BOOLEAN, target_is_zero \in BOOLEAN :
          gas_call = [IdleCall EXCEPT !.state_override_set_dict = d,
                                      !.override_empty = (DOMAIN d = {}),
                                      !.has_paymaster = has_paymaster,
                                      !.target_is_zero = target_is_zero]
    /\ gas_history = [n |-> 0, method_not_found |-> FALSE]

NextOverrides ==
    \/ GetCallDataGasUsedRequest /\ UNCHANGED mvars
    \/ SimulateHandleOpRequest /\ UNCHANGED mvars

SpecOverrides == InitOverrides /\ [][NextOverrides]_vars

\* The verification of the limits of an operation drawn at the start.
VerificationGasLimits == {0, MAX_VERIFICATION_GAS_LIMIT, MAX_VERIFICATION_GAS_LIMIT + 1}

CallGasLimits == {0, MAX_CALL_GAS_LIMIT, MAX_CALL_GAS_LIMIT + 1}

InitVerify ==
    /\ senders = <<>>
    /\ heap = <<>>
    /\ entity_no_of_ops_in_mempool = <<>>
    /\ ops_seen = [a \in Addrs |-> 0]
    /\ calls = <<>>
    /\ bundles = <<>>
    /\ extracted = <<>>
    /\ recomputed = {}
    /\ clearedObjs = {}
    /\ chain_id \in {1, 10}
    /\ estimate_gas_with_override_enabled = TRUE
    /\ \E p \in PreVerificationGasValues, v \in VerificationGasLimits,
          g \in CallGasLimits, sig \in Signatures :
          LET c == [IdleCall EXCEPT !.pre_verification_gas = p,
                                    !.verification_gas_limit = v,
                                    !.call_gas_limit = g,
                                    !.signature = sig,
                                    !.max_fee_per_gas = 3]
          IN  gas_call = [c EXCEPT !.twin = to_list(c)]
    /\ gas_history = [n |-> 0, method_not_found |-> FALSE]

NextVerify ==
    \/ VerifyLimitsStart /\ UNCHANGED mvars
    \/ L1Answer /\ UNCHANGED mvars

SpecVerify == InitVerify /\ [][NextVerify]_vars

\* The estimate of the three limits for an operation, a state-override set and a
\* helper threshold drawn at the start.
EstimateThresholds == {1, 73421}

InitEstimate ==
    /\ senders = <<>>
    /\ heap = <<>>
    /\ entity_no_of_ops_in_mempool = <<>>
    /\ ops_seen = [a \in Addrs |-> 0]
    /\ calls = <<>>
    /\ bundles = <<>>
    /\ extracted = <<>>
    /\ recomputed = {}
    /\ clearedObjs = {}
    /\ chain_id \in {1, 10}
    /\ estimate_gas_with_override_enabled = TRUE
    /\ \E init_code_empty \in BOOLEAN, override_empty \in BOOLEAN,
          p \in PreVerificationGasValues, T \in EstimateThresholds,
          call_data \in CallDatas :
          LET c == [IdleCall EXCEPT !.init_code_empty = init_code_empty,
                                    !.override_empty = override_empty,
                                    !.pre_verification_gas = p,
                                    !.signature = DummySignature,
                                    !.call_data = call_data,
                                    !.body = [zeros |-> call_data.zeros,
                                              nonzeros |-> call_data.nonzeros],
                                    !.max_fee_per_gas = 3,
                                    !.T = T]
          IN  gas_call = [c EXCEPT !.twin = to_list(c)]
    /\ gas_history = [n |-> 0, method_not_found |-> FALSE]

NextEstimate ==
    \/ EstimateLimitsStart /\ UNCHANGED mvars
    \/ LatestBlockInfo /\ UNCHANGED mvars
    \/ L1Answer /\ UNCHANGED mvars
    \/ EstimateGasAnswer /\ UNCHANGED mvars
    \/ HelperAnswerAtMax /\ UNCHANGED mvars
    \/ HelperAnswerExpand /\ UNCHANGED mvars
    \/ HelperAnswerSearch /\ UNCHANGED mvars
    \/ SimulateAnswer /\ UNCHANGED mvars

SpecEstimate == InitEstimate /\ [][NextEstimate]_vars

\* ------------------------------------------------------------ properties
Results == {"hash", "Reputation_banned", "Reputation_throttled", "Validation",
            "InvalidFields"}

ReputationErrors == {"Reputation_banned", "Reputation_throttled"}

\* Call i returns or raises in this step.
EndsNow(i) ==
    /\ i \in DOMAIN calls'
    /\ calls'[i].pc = "done"
    /\ i \in DOMAIN calls => calls[i].pc # "done"

\* Bundle call b returns its bundle in this step.
ReturnsNow(b) ==
    /\ b \in DOMAIN bundles'
    /\ bundles'[b].pc = "done"
    /\ b \in DOMAIN bundles => bundles[b].pc # "done"

\* References to address a as factory and as paymaster among the queued ops.
QueuedRefs(a) ==
    Cardinality({o \in QueuedOps : o.factory = a})
        + Cardinality({o \in QueuedOps : o.paymaster = a})

\* C1: between calls, for every entity address e, entity_no_of_ops_in_mempool[e]
\* (0 when e is no key) equals the number of references to e as factory or
\* paymaster by the ops queued under the senders map.
C1_EntityCountsMatchQueues ==
    ~Busy => \A e \in Addrs :
                EntityCount(entity_no_of_ops_in_mempool, e) = QueuedRefs(e)

\* C2: when get_user_operations_to_bundle returns, no sender of the senders map
\* has an empty queue.
C2_NoEmptySenderAfterBundle ==
    [][\A b \in 1..MaxBundles :
          ReturnsNow(b) =>
              \A i \in DOMAIN senders' :
                  heap'[senders'[i].obj].user_operations # <<>>]_vars

\* The observable state with the entity counts as they read (0 for a missing key).
ReadView(v) ==
    [v EXCEPT !.entity_no_of_ops_in_mempool =
                  [a \in Addrs |-> EntityCount(v.entity_no_of_ops_in_mempool, a)]]

\* The observable state call i started in, for a call that ends in this step.
PreOf(i) == IF i \in DOMAIN calls THEN calls[i].pre ELSE View

FailsNow(i) == EndsNow(i) /\ calls'[i].result # "hash"

\* C3 as stated: when add_user_operation fails, the senders map, every queue,
\* entity_no_of_ops_in_mempool and the ops_seen counters are what they were
\* before the call.
C3_FailedAddLeavesStateAsStated ==
    [][\A i \in 1..MaxOps : FailsNow(i) => View' = PreOf(i)]_vars

\* C3 amended: when add_user_operation fails, an error is raised, the senders map,
\* every queue and the ops_seen counters are what they were before the call, and
\* every entity count reads as before (the dict may have gained keys with count 0).
C3_FailedAddLeavesState ==
    [][\A i \in 1..MaxOps :
          FailsNow(i) =>
              /\ calls'[i].result \in Results \ {"hash"}
              /\ ReadView(View') = ReadView(PreOf(i))]_vars

\* A call rejected by its sender's queue, after an op was admitted.
C3_Witness ==
    \E i \in DOMAIN calls :
        /\ calls[i].result = "InvalidFields"
        /\ \E j \in DOMAIN calls : calls[j].result = "hash"

\* C4: an add_user_operation call that gets past the reputation checks references
\* no THROTTLED entity (sender, factory or paymaster) that already has an op
\* queued, so a THROTTLED entity never gets a second op into the mempool.
C4_ThrottledEntityLimited ==
    [][\A i \in 1..MaxOps :
          (i \in DOMAIN calls' /\ i \notin DOMAIN calls /\ calls'[i].pc = "validate")
          => \A a \in associated_addresses(calls'[i].op) :
                ~(/\ get_status(ops_seen, a) = "THROTTLED"
                  /\ QueuedAsSender(a) + QueuedAsEntity(a) >= 1)]_vars

\* C5: of two add_user_operation calls in flight together that reference the same
\* entity, THROTTLED and without an op in the mempool when the first started, at
\* most one returns a hash.
C5_ThrottledRaceAdmitsOne ==
    \A j \in DOMAIN calls :
        \A i \in calls[j].rivals :
            ~(calls[i].result = "hash" /\ calls[j].result = "hash")

BundleIds(b) == OpIds(bundles[b].bundle)

Dropped == {r.id : r \in {x \in recomputed : x.new_code_hash # x.code_hash}}

InMap(obj) == \E k \in DOMAIN senders : senders[k].obj = obj

\* Ops held by a get_user_operations_to_bundle call that has not returned.
HeldBy(b) ==
    IF bundles[b].pc = "done" THEN {}
    ELSE BundleIds(b) \cup ({bundles[b].op.id} \ {0})

\* C6: every op whose add_user_operation returned a hash is in a queue under the
\* senders map, or held by a bundle call that has not returned, or in exactly one
\* returned bundle, or was dropped on a code-hash mismatch, or sits in a Sender
\* that clear_user_operations took out of the map; it is in no other Sender.
C6_AdmittedOpsAccounted ==
    \A i \in DOMAIN calls :
        calls[i].result = "hash" =>
            LET returnedIn == {b \in DOMAIN bundles :
                                  bundles[b].pc = "done" /\ i \in BundleIds(b)}
            IN  /\ Cardinality(returnedIn) <= 1
                /\ \A obj \in DOMAIN heap :
                      i \in OpIds(heap[obj].user_operations)
                          => InMap(obj) \/ obj \in clearedObjs
                /\ \/ \E obj \in DOMAIN heap : i \in OpIds(heap[obj].user_operations)
                   \/ \E b \in DOMAIN bundles : i \in HeldBy(b)
                   \/ returnedIn # {}
                   \/ i \in Dropped

\* C7: an op popped by get_user_operations_to_bundle whose recomputed code hash
\* differs from the pinned one is in no queue and in no bundle, and no bundle call
\* raises; an op whose recomputed hash equals the pinned one is in the bundle.
C7_MismatchDropsMatchBundles ==
    /\ \A b \in DOMAIN bundles : bundles[b].pc # "error"
    /\ \A r \in recomputed :
          IF r.new_code_hash # r.code_hash
          THEN /\ \A b \in DOMAIN bundles : r.id \notin BundleIds(b)
               /\ \A obj \in DOMAIN heap : r.id \notin OpIds(heap[obj].user_operations)
          ELSE \E b \in DOMAIN bundles : r.id \in BundleIds(b)

C7_Witness ==
    \E b \in DOMAIN bundles :
        /\ bundles[b].pc = "done"
        /\ Len(bundles[b].bundle) = 1
        /\ \E r \in recomputed : r.new_code_hash # r.code_hash

\* C8: the ops of one sender are popped in the order of their admission (calls are
\* made one after the other, so an op admitted earlier has the smaller id).
C8_SenderFifo ==
    \A p, q \in DOMAIN extracted :
        (p < q /\ extracted[p].sender = extracted[q].sender)
            => extracted[p].id < extracted[q].id

C8_Witness ==
    \E p, q \in DOMAIN extracted :
        p < q /\ extracted[p].sender = extracted[q].sender

\* C9: a bundle holds at most one op per sender, and its ops are in the order in
\* which their senders were inserted into the senders map (a Sender inserted later
\* has the larger object id).
C9_BundleOrder ==
    \A b \in DOMAIN bundles :
        \A p, q \in DOMAIN bundles[b].bundle :
            p < q => /\ bundles[b].bundle[p].sender # bundles[b].bundle[q].sender
                     /\ bundles[b].bundle[p].obj < bundles[b].bundle[q].obj

C9_Witness ==
    \E b \in DOMAIN bundles : bundles[b].pc = "done" /\ Len(bundles[b].bundle) = 2

\* C10: an add_user_operation call whose sender, factory or paymaster is BANNED
\* raises a Reputation error at once: the ValidationManager is not invoked, no
\* Sender or queue changes, and no ops_seen counter changes.
C10_BannedFailsAtOnce ==
    [][\A i \in 1..MaxOps :
          (i \in DOMAIN calls' /\ i \notin DOMAIN calls /\ calls'[i].banned0)
          => /\ calls'[i].pc = "done"
             /\ calls'[i].result \in ReputationErrors
             /\ ~calls'[i].validated
             /\ senders' = senders
             /\ heap' = heap
             /\ ops_seen' = ops_seen]_vars

C10_Witness ==
    \E i \in DOMAIN calls : calls[i].banned0 /\ calls[i].pc = "done"

\* Some THROTTLED entity has an op queued under the senders map.
ThrottledEntityQueued ==
    \E a \in Addrs : /\ get_status(ops_seen, a) = "THROTTLED"
                     /\ QueuedAsSender(a) + QueuedAsEntity(a) >= 1

\* C11: add_user_operation rejects an op as throttled only in a state where a
\* THROTTLED entity has an op in the mempool; once the queued op of a THROTTLED
\* entity has left the mempool, an op that references the entity is not rejected
\* as throttled.
C11_ThrottledOnlyWhileQueued ==
    [][\A i \in 1..MaxOps :
          (/\ i \in DOMAIN calls' /\ i \notin DOMAIN calls
           /\ calls'[i].result = "Reputation_throttled")
          => ThrottledEntityQueued]_vars

RECURSIVE SumQueueLengths(_, _)
SumQueueLengths(S, H) ==
    IF S = <<>> THEN 0
    ELSE Len(H[Head(S).obj].user_operations) + SumQueueLengths(Tail(S), H)

\* C12: in every reachable state the sum of the lengths of the sender queues is at
\* most the configured mempool capacity.
C12_CapacityRespected == SumQueueLengths(senders, heap) <= MempoolCapacity

\* The ops_seen counters after one increment per role of the op: one for the
\* sender, one for the factory if present, one for the paymaster if present.
SeenAfter(seen, op) ==
    [a \in Addrs |-> seen[a] + (IF a = op.sender THEN 1 ELSE 0)
                             + (IF a = op.factory THEN 1 ELSE 0)
                             + (IF a = op.paymaster THEN 1 ELSE 0)]

\* C13: a call of add_user_operation that returns a hash increments ops_seen once
\* for the sender and once for each of factory and paymaster present, in the step
\* in which it returns, when the op is already in its sender's queue; a call that
\* fails leaves ops_seen as it was when the call started; ops_seen changes in no
\* other step.
C13_SeenOncePerAdmission ==
    [][/\ \A i \in 1..MaxOps :
             EndsNow(i) =>
                 IF calls'[i].result = "hash"
                 THEN /\ i \in DOMAIN calls
                      /\ calls[i].pc = "gather"
                      /\ calls[i].op.id \in OpIds(heap[calls[i].new_sender].user_operations)
                      /\ ops_seen' = SeenAfter(ops_seen, calls[i].op)
                      /\ ops_seen' = SeenAfter(calls[i].pre.ops_seen, calls[i].op)
                 ELSE ops_seen' = PreOf(i).ops_seen
       /\ ops_seen' # ops_seen =>
             \E i \in 1..MaxOps : EndsNow(i) /\ calls'[i].result = "hash"]_vars

\* An op with exactly one of factory and paymaster was admitted, and a call failed
\* at its sender's queue.
C13_Witness ==
    /\ \E i \in DOMAIN calls : calls[i].result = "hash"
    /\ \E j \in DOMAIN calls : calls[j].result = "InvalidFields"
    /\ \E a \in EntityAddrs : ops_seen[a] = 1

\* C14: when a call of add_user_operation is cancelled at one of its suspension
\* points, the senders map, every queue and the ops_seen counters are what they
\* were before the call, and every entity count reads as before.
C14_CancelledAddLeavesState ==
    [][\A i \in 1..MaxOps :
          (EndsNow(i) /\ calls'[i].result = "Cancelled")
          => ReadView(View') = ReadView(PreOf(i))]_vars

\* A call of estimate_call_gas_limit that returned the result of the binary search.
SearchReturned ==
    /\ gas_call.method = "estimate_call_gas_limit"
    /\ gas_call.pc = "done"
    /\ gas_call.outcome = "ok"
    /\ "eth_call" \in gas_call.issued

\* C15: once the node has answered eth_estimateGas with MethodNotFound, no call of
\* estimate_call_gas_limit issues eth_estimateGas again, and
\* estimate_gas_with_override_enabled stays False.
C15_NoEstimateGasAfterMethodNotFound ==
    gas_history.method_not_found =>
        /\ ~estimate_gas_with_override_enabled
        /\ gas_call.pc # "eth_estimateGas"

RECURSIVE CeilLog2From(_, _, _)
CeilLog2From(n, k, p) == IF p >= n THEN k ELSE CeilLog2From(n, k + 1, 2 * p)

\* The least k with 2^k >= n.
CeilLog2(n) == CeilLog2From(n, 0, 1)

IterationBound == CeilLog2(CeilDiv(MAX_CALL_GAS_LIMIT, SearchTolerance)) + 14

\* C17: the loops of the call-gas search (exponential expansion, then binary
\* search) make at most ceil(log2(MAX_CALL_GAS_LIMIT / 5000)) + 14 iterations in
\* total.
C17_SearchIterationsBounded == gas_call.iters <= IterationBound

\* C18: the upper bound that find_max_min_gas returns, every value the binary
\* search then gives it, and the call gas limit returned are at most
\* MAX_CALL_GAS_LIMIT.
C18_CallGasLimitCapped ==
    /\ gas_call.right <= MAX_CALL_GAS_LIMIT
    /\ SearchReturned => int_base16(gas_call.returned_hex) <= MAX_CALL_GAS_LIMIT

\* C19: the call gas limit (of either strategy) and the verification gas limit
\* that are returned are non-negative.
C19_LimitsNonNegative ==
    (/\ gas_call.method \in {"estimate_call_gas_limit",
                             "estimate_verification_gas_limit"}
     /\ gas_call.pc = "done"
     /\ gas_call.outcome = "ok")
    => int_base16(gas_call.returned_hex) >= 0

\* get_preverification_gas has returned, on a chain without L1 data cost, with the
\* default coefficient and constant.
PvgReturnedNoL1 ==
    /\ gas_call.method = "get_preverification_gas"
    /\ gas_call.pc = "done"
    /\ chain_id \notin {10, 420, 42161}
    /\ gas_call.coefficient = 100
    /\ gas_call.constant = 0

PackedLength == gas_call.zeros + gas_call.nonzeros

\* C20 as stated: on a chain without L1 data cost, with coefficient 100 and constant
\* 0, get_preverification_gas returns 21000 + 18300 + 4*ceil(L/32) + 4*Z + 16*NZ.
C20_PvgFormulaAsStated ==
    PvgReturnedNoL1 =>
        gas_call.returned_int =
            21000 + 18300 + 4 * CeilDiv(PackedLength, 32)
                + 4 * gas_call.zeros + 16 * gas_call.nonzeros

\* C20 amended: on a chain without L1 data cost, with coefficient 100 and constant
\* 0, get_preverification_gas returns 21000 + 18300 + 4*W + 4*Z + 16*NZ, where
\* W = ceil((L + 31) / 32): one word more than ceil(L/32), except when L leaves the
\* remainder 1 modulo 32, where W = ceil(L/32).
C20_PvgFormula ==
    PvgReturnedNoL1 =>
        gas_call.returned_int =
            21000 + 18300
                + 4 * (CeilDiv(PackedLength, 32)
                           + (IF PackedLength % 32 = 1 THEN 0 ELSE 1))
                + 4 * gas_call.zeros + 16 * gas_call.nonzeros

\* A packed operation of a whole number of words, with zero and non-zero bytes.
C20_Witness ==
    /\ PvgReturnedNoL1
    /\ PackedLength = 192
    /\ gas_call.zeros >= 20

\* C23: simulate_validation_and_decode_result gives a Valid outcome only when the
\* revert selector is that of ValidationResult; a FailedOp selector gives the
\* rejection carrying the reason; another selector is never decoded as a
\* validation result.
C23_ValidOnlyForValidationResult ==
    (/\ gas_call.method = "simulate_validation_and_decode_result"
     /\ gas_call.pc = "done")
    => /\ gas_call.outcome = "ok" => gas_call.answer = "ValidationResult_selector"
       /\ gas_call.answer = "FailedOp_selector" =>
              gas_call.outcome = "BundlerException"

\* C24: a simulateValidation or simulateHandleOp eth_call answered with a result
\* and no error makes the call fail with the did-not-revert error; nothing is
\* returned.
C24_NoRevertFails ==
    (gas_call.pc = "done" /\ gas_call.answer = "no_error")
    => /\ gas_call.outcome = "ValueError"
       /\ gas_call.detail \in {"simulateValidation didn't revert!",
                               "simulateHandleOp didn't revert!"}
       /\ gas_call.returned_hex = NoHex
       /\ gas_call.returned_int = 0

C24_Witness ==
    /\ gas_call.pc = "done"
    /\ gas_call.answer = "no_error"
    /\ gas_call.method = "simulate_validation_and_decode_result"

\* C25: simulate_handle_op returns exactly when the revert data starts with
\* 0x8b7ac980; with the selector of FailedOp or of Error(string) it raises
\* ValidationException carrying the decoded reason, with any other selector
\* ValidationException carrying the raw params.
C25_HandleOpSelectors ==
    (gas_call.pc = "done" /\ gas_call.method = "estimate_verification_gas_limit")
    => /\ gas_call.outcome = "ok" <=> gas_call.answer = "0x8b7ac980"
       /\ gas_call.answer \in {"0x220266b6", "0x08c379a0"} =>
              /\ gas_call.outcome = "ValidationException"
              /\ gas_call.detail = "decoded reason"
       /\ gas_call.answer = "other_selector" =>
              /\ gas_call.outcome = "ValidationException"
              /\ gas_call.detail = "raw params"

C25_Witness ==
    /\ gas_call.pc = "done"
    /\ gas_call.method = "estimate_verification_gas_limit"
    /\ gas_call.answer = "0x220266b6"

\* C27: a call of estimate_call_gas_limit issues eth_estimateGas exactly when
\* init_code is empty and the state-override set is empty or
\* estimate_gas_with_override_enabled was true when the call started; a call that
\* does not issues eth_call requests only.
C27_StrategyChoice ==
    (gas_call.method = "estimate_call_gas_limit" /\ gas_history.n >= 1)
    => LET strategy_a == /\ gas_call.init_code_empty
                         /\ (gas_call.override_empty \/ gas_call.enabled_at_start)
       IN  /\ "eth_estimateGas" \in gas_call.issued <=> strategy_a
           /\ ~strategy_a => gas_call.issued = {"eth_call"}

\* A call with a non-empty override set on an instance whose flag is False.
C27_Witness ==
    /\ gas_call.method = "estimate_call_gas_limit"
    /\ gas_call.init_code_empty
    /\ ~gas_call.override_empty
    /\ ~gas_call.enabled_at_start
    /\ gas_call.pc = "done"

\* C28: when eth_estimateGas is answered with code -32601 or -32602, the call goes
\* on with the helper's eth_call requests, and ends with the result of the binary
\* search or with the ExecutionException of that strategy: no
\* MethodNotFoundException reaches the caller.
C28_MethodNotFoundNotSurfaced ==
    /\ gas_call.outcome # "MethodNotFoundException"
    /\ gas_call.error_code \in {-32601, -32602} =>
          /\ "eth_call" \in gas_call.issued
          /\ gas_call.pc = "done" =>
                \/ /\ gas_call.outcome = "ok"
                   /\ int_base16(gas_call.returned_hex) = gas_call.right
                \/ /\ gas_call.outcome = "ExecutionException"
                   /\ ~helper_success(gas_call.T, MAX_CALL_GAS_LIMIT)

C28_Witness ==
    /\ gas_call.error_code = -32602
    /\ gas_call.pc = "done"
    /\ gas_call.outcome = "ok"

\* C22: in non-legacy mode, whatever the tolerance, verify_gas_fees_and_get_price
\* returns only for an operation with maxFeePerGas >= base_fee_est,
\* maxPriorityFeePerGas >= 1 and
\* min(maxFeePerGas, base_fee_est + maxPriorityFeePerGas) >= block_max_tol, where
\* base_fee_est = max(1, block_max - block_priority).
C22_FeesAcceptedOnlyIfSufficient ==
    (/\ gas_call.method = "verify_gas_fees_and_get_price"
     /\ gas_call.pc = "done"
     /\ ~gas_call.is_legacy_mode
     /\ gas_call.outcome = "ok")
    => LET block_priority == CeilDiv(gas_call.priority_fee_answer
                                         * gas_call.multiplier, 100)
           diff == gas_call.block_max_fee_per_gas - block_priority
           base_fee_est == IF diff > 1 THEN diff ELSE 1
           sum == base_fee_est + gas_call.max_priority_fee_per_gas
           lower == IF gas_call.max_fee_per_gas < sum
                    THEN gas_call.max_fee_per_gas ELSE sum
       IN  /\ gas_call.max_fee_per_gas >= base_fee_est
           /\ gas_call.max_priority_fee_per_gas >= 1
           /\ lower >= gas_call.block_max_fee_per_gas_with_tolerance

\* The caller's dict names the field of a default item: the same field of the same
\* address and, for a stateDiff item, the same slot.
CallerNames(addr, item) ==
    /\ addr \in DOMAIN gas_call.state_override_set_dict
    /\ \E i \in gas_call.state_override_set_dict[addr] :
          i.field = item.field /\ i.slot = item.slot

\* C26: in the request sent by get_call_data_gas_used or simulate_handle_op, a
\* default override stays unless the caller names the same field of the same
\* address (for stateDiff the same slot): the helper's code at the EntryPoint and
\* the default deposit slot remain when the caller overrides something else there.
C26_DefaultsSurviveMerge ==
    gas_call.pc = "eth_call_sent"
    => \A addr \in DOMAIN gas_call.default_state_overrides :
          \A item \in gas_call.default_state_overrides[addr] :
              ~CallerNames(addr, item) =>
                  /\ addr \in DOMAIN gas_call.request_overrides
                  /\ item \in gas_call.request_overrides[addr]

\* C30: the default state overrides of simulate_handle_op hold the balance of the
\* zero address and exactly one more entry: the sender's balance (no paymaster,
\* zero target), the sender's deposit slot at the EntryPoint (no paymaster,
\* non-zero target), the paymaster's deposit slot at the EntryPoint (paymaster).
C30_DefaultOverrides ==
    (gas_call.pc = "eth_call_sent" /\ gas_call.method = "simulate_handle_op")
    => LET d == gas_call.default_state_overrides
           other == IF gas_call.has_paymaster
                    THEN [k \in {"entrypoint"} |->
                             {Item("stateDiff", "paymaster_deposit_slot", "default")}]
                    ELSE IF gas_call.target_is_zero
                    THEN [k \in {"sender_address"} |->
                             {Item("balance", "none", "default")}]
                    ELSE [k \in {"entrypoint"} |->
                             {Item("stateDiff", "sender_deposit_slot", "default")}]
       IN  /\ "ZERO_ADDRESS" \in DOMAIN d
           /\ d["ZERO_ADDRESS"] = {Item("balance", "none", "default")}
           /\ Cardinality(DOMAIN d) = 2
           /\ \A k \in DOMAIN other : k \in DOMAIN d /\ d[k] = other[k]

C30_Witness ==
    /\ gas_call.pc = "eth_call_sent"
    /\ gas_call.method = "simulate_handle_op"
    /\ ~gas_call.has_paymaster
    /\ ~gas_call.target_is_zero

\* The twin differs from the operation in preVerificationGas only, or in a
\* signature shorter than 65 bytes only.
TwinDiffers ==
    gas_call.twin \in Twins(to_list(gas_call))

\* C21 as stated: operations that differ only in their preVerificationGas, or only
\* in a signature shorter than 65 bytes, get the same pre-verification gas; on a
\* chain other than 10, 420 and 42161 no RPC is issued; the operation's fields are
\* not changed.
C21_PvgIgnoresOwnFieldsAsStated ==
    [][/\ to_list(gas_call') = to_list(gas_call)
       /\ (gas_call'.pc = "done" /\ TwinDiffers) =>
              /\ gas_call'.returned_int = gas_call'.twin_int
              /\ chain_id \notin {10, 420, 42161} => gas_call'.issued = {}]_vars

\* C21 amended: on a chain other than 10, 420 and 42161, operations that differ
\* only in their preVerificationGas, or only in a signature shorter than 65 bytes,
\* get the same pre-verification gas, and no RPC is issued; on every chain
\* calc_base_preverification_gas gives them the same base, and the operation's
\* fields are not changed.
C21_PvgIgnoresOwnFields ==
    [][/\ to_list(gas_call') = to_list(gas_call)
       /\ (gas_call'.pc = "done" /\ TwinDiffers) =>
              /\ (\/ chain_id \notin {10, 420, 42161}
                  \/ gas_call'.method = "calc_base_preverification_gas") =>
                     gas_call'.returned_int = gas_call'.twin_int
              /\ gas_call'.method = "get_preverification_gas" =>
                     gas_call'.base = gas_call'.twin_base
              /\ chain_id \notin {10, 420, 42161} => gas_call'.issued = {}]_vars

\* Two operations with different preVerificationGas, on a chain without L1 cost.
C21_Witness ==
    /\ gas_call.method = "get_preverification_gas"
    /\ gas_call.pc = "done"
    /\ chain_id = 1
    /\ gas_call.pre_verification_gas = 0
    /\ gas_call.twin.pre_verification_gas = 45000
    /\ gas_call.returned_int = gas_call.twin_int
    /\ gas_call.issued = {}

\* The fields of the operation other than the three gas fields.
OtherFields(c) ==
    <<c.init_code_empty, c.has_paymaster, c.max_fee_per_gas,
      c.max_priority_fee_per_gas, c.call_data, c.signature, c.body>>

Limits == <<"pre_verification_gas", "call_gas_limit", "verification_gas_limit">>

\* C29: estimate_callgaslimit_and_preverificationgas_and_verificationgas computes
\* the pre-verification gas, then the call gas limit, then the verification gas
\* limit; the simulation for the last is made with the operation's callGasLimit at
\* MAX_CALL_GAS_LIMIT, and the limit is preOpGas minus the pre-verification gas
\* estimated first in the same call; no other field of the operation changes.
C29_EstimateOrder ==
    [][/\ OtherFields(gas_call') = OtherFields(gas_call)
       /\ Len(gas_call'.order) <= 3
       /\ gas_call'.order = SubSeq(Limits, 1, Len(gas_call'.order))
       /\ Len(gas_call'.order) >= Len(gas_call.order)
       /\ (gas_call'.outer = "verification") =>
              /\ gas_call'.pc \in {"simulate_handle_op", "done"}
              /\ gas_call'.call_gas_limit = MAX_CALL_GAS_LIMIT
       /\ (gas_call'.outer = "returned") =>
              /\ gas_call'.order = Limits
              /\ gas_call'.call_gas_limit = MAX_CALL_GAS_LIMIT
              /\ gas_call'.pre_verification_gas
                     = int_base16(gas_call'.preverification_gas_hex)
              /\ int_base16(gas_call'.verification_gas_hex)
                     = gas_call'.preOpGas
                           - int_base16(gas_call'.preverification_gas_hex)]_vars

\* A call that returned the three limits, the call gas limit from the search.
C29_Witness ==
    /\ gas_call.outer = "returned"
    /\ gas_call.order = Limits
    /\ gas_call.preOpGas = 200000
    /\ int_base16(gas_call.preverification_gas_hex) > 21000
    /\ int_base16(gas_call.verification_gas_hex) > 0
    /\ "eth_call" \in gas_call.issued
    /\ int_base16(gas_call.call_gas_limit_hex) > 0

\* C31: verify_preverification_gas_and_verification_gas_limit raises for an
\* operation whose preVerificationGas is below the computed bound, whose
\* verificationGasLimit is above MAX_VERIFICATION_GAS_LIMIT or whose callGasLimit
\* is above MAX_CALL_GAS_LIMIT, and returns for every other operation.
C31_LimitsVerified ==
    (gas_call.outer = "verified" /\ gas_call.pc = "done")
    => (gas_call.outcome = "ValidationException"
           <=> \/ gas_call.pre_verification_gas
                      < gas_call.expected_preverification_gas
               \/ gas_call.verification_gas_limit > MAX_VERIFICATION_GAS_LIMIT
               \/ gas_call.call_gas_limit > MAX_CALL_GAS_LIMIT)

\* C32: in the expansion loop of find_max_min_gas, whatever gasUsed the helper
\* reports, every failing answer leaves a larger upper bound for the next request
\* (so that the loop ends, by a success or by the bound reaching
\* MAX_CALL_GAS_LIMIT), and the bounds handed to the binary search have the lower
\* one not above the upper one.
C32_ExpansionGrows ==
    [][/\ (gas_call.pc = "expand" /\ gas_call'.pc = "expand") =>
              gas_call'.max_gas > gas_call.max_gas
       /\ (gas_call.pc \in {"helper_max", "expand"} /\ gas_call'.pc = "search") =>
              gas_call'.left <= gas_call'.right]_vars

\* C33: a get_user_operations_to_bundle call never raises, whatever
\* clear_user_operations or another get_user_operations_to_bundle does at its
\* suspension points (no lookup or deletion of a key the map no longer holds), and
\* no op is in two bundles.
C33_BundleNeverRaises ==
    /\ \A b \in DOMAIN bundles : bundles[b].pc # "error"
    /\ \A b1, b2 \in DOMAIN bundles :
          b1 # b2 => BundleIds(b1) \cap BundleIds(b2) = {}

====
